---- MODULE Spec2Model ----
(***************************************************************************)
(* Model of the line-delimited JSON-RPC server of simple-test-mcp-rust:    *)
(* the transport loop of src/main.rs and the dispatcher and handlers of    *)
(* src/server.rs, over the envelope types of src/types.rs.                 *)
(*                                                                         *)
(* JSON values are tagged records with the same four fields, so that a     *)
(* number and a string never compare equal: t is the JSON type, n the      *)
(* number, s the string, o the members of an object or the items of an     *)
(* array.  Option<T> is a sequence of length 0 (None) or 1 (Some).         *)
(* Result<T> is a record with ok, val and err.                             *)
(*                                                                         *)
(* Environment: reads deliver valid UTF-8 and writes to stdout succeed,    *)
(* so no '?' of main propagates an I/O error.                              *)
(***************************************************************************)
EXTENDS Integers, Sequences, FiniteSets, TLC

\* Number of input lines the stream delivers before end-of-stream.
MaxLines == 2

(* serde_json::Value *)

EmptyMap == [key \in {} |-> key]

JNull == [t |-> "null", n |-> 0, s |-> "", o |-> EmptyMap]

JNum(i) == [t |-> "number", n |-> i, s |-> "", o |-> EmptyMap]

JStr(str) == [t |-> "string", n |-> 0, s |-> str, o |-> EmptyMap]

JBool(b) == [t |-> "bool", n |-> IF b THEN 1 ELSE 0, s |-> "", o |-> EmptyMap]

JObj(members) == [t |-> "object", n |-> 0, s |-> "", o |-> members]

JArr(items) == [t |-> "array", n |-> 0, s |-> "", o |-> items]

None == << >>

Some(v) == << v >>

Ok(v) == [ok |-> TRUE, val |-> v, err |-> ""]

Err(e) == [ok |-> FALSE, val |-> None, err |-> e]

\* Option::unwrap_or
unwrap_or(opt, default) == IF opt = None THEN default ELSE opt[1]

\* HashMap::get / a struct field looked up by the derived Deserialize
get(members, key) == IF key \in DOMAIN members THEN Some(members[key]) ELSE None

\* Value::as_str
as_str(opt) == IF opt # None /\ opt[1].t = "string" THEN Some(opt[1].s) ELSE None

\* Value::as_f64
as_f64(opt) == IF opt # None /\ opt[1].t = "number" THEN Some(opt[1].n) ELSE None

\* A field of type Option<serde_json::Value>: absent and null both give None.
option_field(members, key) ==
    IF key \in DOMAIN members /\ members[key].t # "null"
    THEN Some(members[key])
    ELSE None

\* A required field of type String.
has_string(members, key) == key \in DOMAIN members /\ members[key].t = "string"

\* A required field of type HashMap<String, serde_json::Value>.
has_map(members, key) == key \in DOMAIN members /\ members[key].t = "object"

(* src/types.rs *)

\* JsonRpcRequest as derived by serde: jsonrpc and method are required
\* strings, id and params are optional.  The JSON texts of the input carry
\* every struct as an object; serde's positional form, an array, is not part
\* of the input.
JsonRpcRequest(v) ==
    IF v.t # "object" THEN Err("invalid type, expected struct JsonRpcRequest")
    ELSE IF ~ has_string(v.o, "jsonrpc") THEN Err("missing field 'jsonrpc'")
    ELSE IF ~ has_string(v.o, "method") THEN Err("missing field 'method'")
    ELSE Ok([jsonrpc |-> v.o["jsonrpc"].s,
             id      |-> option_field(v.o, "id"),
             method  |-> v.o["method"].s,
             params  |-> option_field(v.o, "params")])

ClientInfo(v) ==
    v.t = "object" /\ has_string(v.o, "name") /\ has_string(v.o, "version")

InitializeParams(v) ==
    IF v.t # "object" THEN Err("invalid type, expected struct InitializeParams")
    ELSE IF ~ has_string(v.o, "protocolVersion") THEN Err("missing field 'protocolVersion'")
    ELSE IF ~ has_map(v.o, "capabilities") THEN Err("missing field 'capabilities'")
    ELSE IF option_field(v.o, "clientInfo") # None /\ ~ ClientInfo(v.o["clientInfo"])
         THEN Err("invalid clientInfo")
    ELSE Ok([protocol_version |-> v.o["protocolVersion"].s])

ToolCallParams(v) ==
    IF v.t # "object" THEN Err("invalid type, expected struct ToolCallParams")
    ELSE IF ~ has_string(v.o, "name") THEN Err("missing field 'name'")
    ELSE IF ~ has_map(v.o, "arguments") THEN Err("missing field 'arguments'")
    ELSE Ok([name |-> v.o["name"].s, arguments |-> v.o["arguments"].o])

ResourceReadParams(v) ==
    IF v.t # "object" THEN Err("invalid type, expected struct ResourceReadParams")
    ELSE IF ~ has_string(v.o, "uri") THEN Err("missing field 'uri'")
    ELSE Ok([uri |-> v.o["uri"].s])

PromptGetParams(v) ==
    IF v.t # "object" THEN Err("invalid type, expected struct PromptGetParams")
    ELSE IF ~ has_string(v.o, "name") THEN Err("missing field 'name'")
    ELSE Ok([name |-> v.o["name"].s])

McpError(code, message) == [code |-> code, message |-> message]

McpResponse(id, result, error) ==
    [jsonrpc |-> "2.0", id |-> id, result |-> result, error |-> error]

\* serde_json::to_string(&McpError)
McpError_to_json(e) == JObj([code |-> JNum(e.code), message |-> JStr(e.message)])

\* to_string without skip_serializing_if: a None field is written as null.
to_string_noskip(response) ==
    JObj([jsonrpc |-> JStr(response.jsonrpc),
          id |-> response.id,
          result |-> IF response.result = None THEN JNull ELSE response.result[1],
          error |-> IF response.error = None THEN JNull
                    ELSE McpError_to_json(response.error[1])])

\* serde_json::to_string(&McpResponse): result and error are skipped when None.
to_string(response) ==
    JObj([jsonrpc |-> JStr(response.jsonrpc), id |-> response.id]
         @@ (IF response.result = None THEN EmptyMap
             ELSE [result |-> response.result[1]])
         @@ (IF response.error = None THEN EmptyMap
             ELSE [error |-> McpError_to_json(response.error[1])]))

(* src/server.rs *)

\* McpServer::new: the three descriptor tables, in construction order.
\* McpServer::new that also lists a tool multiply, which execute_tool does
\* not implement.
McpServer_new_multiply ==
    [tools |-> << [name |-> "echo",
                   description |-> "Echoes back the input message",
                   input_schema |-> JObj([type |-> JStr("object"),
                                          required |-> JArr(<< JStr("message") >>)])],
                  [name |-> "add",
                   description |-> "Adds two numbers together",
                   input_schema |-> JObj([type |-> JStr("object"),
                                          required |-> JArr(<< JStr("a"), JStr("b") >>)])],
                  [name |-> "multiply",
                   description |-> "Multiplies two numbers",
                   input_schema |-> JObj([type |-> JStr("object"),
                                          required |-> JArr(<< JStr("a"), JStr("b") >>)])] >>,
     resources |-> << [uri |-> "file:///example.txt",
                       name |-> "Example File",
                       description |-> "An example text file",
                       mime_type |-> "text/plain"] >>,
     prompts |-> << [name |-> "hello",
                     description |-> "Returns a friendly greeting"] >>]

McpServer_new ==
    [tools |-> << [name |-> "echo",
                   description |-> "Echoes back the input message",
                   input_schema |-> JObj([type |-> JStr("object"),
                                          required |-> JArr(<< JStr("message") >>)])],
                  [name |-> "add",
                   description |-> "Adds two numbers together",
                   input_schema |-> JObj([type |-> JStr("object"),
                                          required |-> JArr(<< JStr("a"), JStr("b") >>)])] >>,
     resources |-> << [uri |-> "file:///example.txt",
                       name |-> "Example File",
                       description |-> "An example text file",
                       mime_type |-> "text/plain"] >>,
     prompts |-> << [name |-> "hello",
                     description |-> "Returns a friendly greeting"] >>]

\* f64 formatted with a fractional part, as {:?} or {:.1} would.
fmt_f64_fraction(x) == (IF x < 0 THEN "-" \o ToString(0 - x) ELSE ToString(x)) \o ".0"

\* f64 Display, for the integer-valued numbers of the model: no fractional part.
fmt_f64(x) == IF x < 0 THEN "-" \o ToString(0 - x) ELSE ToString(x)

\* execute_tool that echoes an empty message when message is absent or not a
\* string.
execute_tool_lenient(self, name, arguments) ==
    CASE name = "echo" ->
           LET message == as_str(get(arguments, "message"))
           IN  Ok("Echo: " \o unwrap_or(message, ""))
      [] name = "add" ->
           LET a == as_f64(get(arguments, "a"))
               b == as_f64(get(arguments, "b"))
           IN  IF a = None THEN Err("Missing 'a' argument")
               ELSE IF b = None THEN Err("Missing 'b' argument")
               ELSE Ok(fmt_f64(a[1]) \o " + " \o fmt_f64(b[1]) \o " = "
                       \o fmt_f64(a[1] + b[1]))
      [] OTHER -> Err("Unknown tool: " \o name)

execute_tool(self, name, arguments) ==
    CASE name = "echo" ->
           LET message == as_str(get(arguments, "message"))
           IN  IF message = None THEN Err("Missing 'message' argument")
               ELSE Ok("Echo: " \o message[1])
      [] name = "add" ->
           LET a == as_f64(get(arguments, "a"))
               b == as_f64(get(arguments, "b"))
           IN  IF a = None THEN Err("Missing 'a' argument")
               ELSE IF b = None THEN Err("Missing 'b' argument")
               ELSE Ok(fmt_f64(a[1]) \o " + " \o fmt_f64(b[1]) \o " = "
                       \o fmt_f64(a[1] + b[1]))
      [] OTHER -> Err("Unknown tool: " \o name)

\* read_resource that compares the uri without regard to case.
read_resource_nocase(self, uri) ==
    IF uri \in {"file:///example.txt", "FILE:///EXAMPLE.TXT"}
    THEN Ok("This is an example text file content.\nIt contains some sample text for demonstration purposes.")
    ELSE Err("Resource not found: " \o uri)

read_resource(self, uri) ==
    IF uri = "file:///example.txt"
    THEN Ok("This is an example text file content.\nIt contains some sample text for demonstration purposes.")
    ELSE Err("Resource not found: " \o uri)

handle_initialize(self, request) ==
    LET params == InitializeParams(unwrap_or(request.params, JObj(EmptyMap)))
    IN  IF ~ params.ok THEN Err(params.err)
        ELSE Ok(Some(McpResponse(
                 unwrap_or(request.id, JNull),
                 Some(JObj([protocolVersion |-> JStr("2024-11-05"),
                            capabilities |-> JObj(
                                [tools |-> JObj([listChanged |-> JBool(TRUE)]),
                                 resources |-> JObj([listChanged |-> JBool(TRUE)]),
                                 prompts |-> JObj([listChanged |-> JBool(TRUE)])]),
                            serverInfo |-> JObj([name |-> JStr("leap-mcp"),
                                                 version |-> JStr("0.1.0")])])),
                 None)))

\* handle_tools_list that lists the tools in the reverse of construction order.
handle_tools_list_reversed(self, request) ==
    LET n == Len(self.tools)
        tools_json == [i \in DOMAIN self.tools |->
                         JObj([name |-> JStr(self.tools[n + 1 - i].name),
                               description |-> JStr(self.tools[n + 1 - i].description),
                               inputSchema |-> self.tools[n + 1 - i].input_schema])]
    IN  Ok(Some(McpResponse(unwrap_or(request.id, JNull),
                            Some(JObj([tools |-> JArr(tools_json)])),
                            None)))

handle_tools_list(self, request) ==
    LET tools_json == [i \in DOMAIN self.tools |->
                         JObj([name |-> JStr(self.tools[i].name),
                               description |-> JStr(self.tools[i].description),
                               inputSchema |-> self.tools[i].input_schema])]
    IN  Ok(Some(McpResponse(unwrap_or(request.id, JNull),
                            Some(JObj([tools |-> JArr(tools_json)])),
                            None)))

\* handle_tools_call that reports a failure of execute_tool inside the result.
handle_tools_call_inband(self, request) ==
    IF request.params = None THEN Err("Missing params")
    ELSE LET params == ToolCallParams(request.params[1])
         IN  IF ~ params.ok THEN Err(params.err)
             ELSE LET result == execute_tool(self, params.val.name, params.val.arguments)
                  IN  Ok(Some(McpResponse(
                           unwrap_or(request.id, JNull),
                           Some(JObj([content |-> JArr(<< JObj(
                                          [type |-> JStr("text"),
                                           text |-> JStr(IF result.ok THEN result.val
                                                         ELSE result.err)]) >>),
                                      isError |-> JBool(~ result.ok)])),
                           None)))

handle_tools_call(self, request) ==
    IF request.params = None THEN Err("Missing params")
    ELSE LET params == ToolCallParams(request.params[1])
         IN  IF ~ params.ok THEN Err(params.err)
             ELSE LET result == execute_tool(self, params.val.name, params.val.arguments)
                  IN  IF ~ result.ok THEN Err(result.err)
                      ELSE Ok(Some(McpResponse(
                               unwrap_or(request.id, JNull),
                               Some(JObj([content |-> JArr(<< JObj([type |-> JStr("text"),
                                                                   text |-> JStr(result.val)]) >>),
                                          isError |-> JBool(FALSE)])),
                               None)))

handle_resources_list(self, request) ==
    LET resources_json == [i \in DOMAIN self.resources |->
                             JObj([uri |-> JStr(self.resources[i].uri),
                                   name |-> JStr(self.resources[i].name),
                                   description |-> JStr(self.resources[i].description),
                                   mimeType |-> JStr(self.resources[i].mime_type)])]
    IN  Ok(Some(McpResponse(unwrap_or(request.id, JNull),
                            Some(JObj([resources |-> JArr(resources_json)])),
                            None)))

handle_resources_read(self, request) ==
    IF request.params = None THEN Err("Missing params")
    ELSE LET params == ResourceReadParams(request.params[1])
         IN  IF ~ params.ok THEN Err(params.err)
             ELSE LET content == read_resource(self, params.val.uri)
                  IN  IF ~ content.ok THEN Err(content.err)
                      ELSE Ok(Some(McpResponse(
                               unwrap_or(request.id, JNull),
                               Some(JObj([contents |-> JArr(<< JObj([uri |-> JStr(params.val.uri),
                                                                    mimeType |-> JStr("text/plain"),
                                                                    text |-> JStr(content.val)]) >>)])),
                               None)))

handle_prompts_list(self, request) ==
    LET prompts_json == [i \in DOMAIN self.prompts |->
                           JObj([name |-> JStr(self.prompts[i].name),
                                 description |-> JStr(self.prompts[i].description)])]
    IN  Ok(Some(McpResponse(unwrap_or(request.id, JNull),
                            Some(JObj([prompts |-> JArr(prompts_json)])),
                            None)))

handle_prompts_get(self, request) ==
    IF request.params = None THEN Err("Missing params")
    ELSE LET params == PromptGetParams(request.params[1])
         IN  IF ~ params.ok THEN Err(params.err)
             ELSE IF params.val.name # "hello" THEN Err("Unknown prompt: " \o params.val.name)
             ELSE Ok(Some(McpResponse(
                      unwrap_or(request.id, JNull),
                      Some(JObj([messages |-> JArr(<< JObj(
                           [role |-> JStr("user"),
                            content |-> JArr(<< JObj([type |-> JStr("text"),
                                                     text |-> JStr("Hello from leap-mcp prompts!")]) >>)]) >>)])),
                      None)))

\* handle_initialized with the resources notification sent first.
handle_initialized_reordered ==
    << "resources/listChanged", "tools/listChanged", "prompts/listChanged" >>

\* handle_initialized: the methods it passes to send_notification, in order.
\* The writes themselves are the steps SendNotification and FlushNotification;
\* it then returns Ok(None).
handle_initialized == << "tools/listChanged", "resources/listChanged", "prompts/listChanged" >>

\* send_notification: the JSON object it serializes; params is always json!({}).
send_notification(method) ==
    JObj([jsonrpc |-> JStr("2.0"), method |-> JStr(method), params |-> JObj(EmptyMap)])

\* handle_request that also accepts the capitalised Initialize.
handle_request_nocase(self, request) ==
    CASE request.method \in {"initialize", "Initialize"} -> handle_initialize(self, request)
      [] request.method = "tools/list" -> handle_tools_list(self, request)
      [] request.method = "tools/call" -> handle_tools_call(self, request)
      [] request.method = "resources/list" -> handle_resources_list(self, request)
      [] request.method = "resources/read" -> handle_resources_read(self, request)
      [] request.method = "prompts/list" -> handle_prompts_list(self, request)
      [] request.method = "prompts/get" -> handle_prompts_get(self, request)
      [] request.method = "initialized" -> Ok(None)
      [] OTHER -> Err("Unknown method: " \o request.method)

\* handle_request's match on the method name.  The initialized arm yields the
\* value handle_initialized returns once its three notifications are flushed.
handle_request(self, request) ==
    CASE request.method = "initialize" -> handle_initialize(self, request)
      [] request.method = "tools/list" -> handle_tools_list(self, request)
      [] request.method = "tools/call" -> handle_tools_call(self, request)
      [] request.method = "resources/list" -> handle_resources_list(self, request)
      [] request.method = "resources/read" -> handle_resources_read(self, request)
      [] request.method = "prompts/list" -> handle_prompts_list(self, request)
      [] request.method = "prompts/get" -> handle_prompts_get(self, request)
      [] request.method = "initialized" -> Ok(None)
      [] OTHER -> Err("Unknown method: " \o request.method)

(* src/main.rs *)

\* The text of a line is a sequence of tokens: a whitespace character, the
\* text of one well-formed JSON value, or text that is not JSON.
Ws(c) == [k |-> "ws", c |-> c, v |-> JNull]

Json(v) == [k |-> "json", c |-> "", v |-> v]

Junk(c) == [k |-> "junk", c |-> c, v |-> JNull]

NL == Ws("\n")

RECURSIVE trim_start(_)
trim_start(text) ==
    IF text # << >> /\ Head(text).k = "ws" THEN trim_start(Tail(text)) ELSE text

RECURSIVE trim_end(_)
trim_end(text) ==
    IF text # << >> /\ text[Len(text)].k = "ws"
    THEN trim_end(SubSeq(text, 1, Len(text) - 1))
    ELSE text

\* trim that strips nothing.
trim_noop(text) == text

\* str::trim
trim(text) == trim_end(trim_start(text))

\* str::is_empty
is_empty(text) == text = << >>

\* serde_json::from_str::<JsonRpcRequest>: whitespace around the value is
\* skipped; one JSON value and nothing after it.
from_str(text) ==
    LET t == trim_end(trim_start(text))
    IN  IF t = << >> THEN Err("EOF while parsing a value")
        ELSE IF t[1].k # "json" THEN Err("expected value")
        ELSE IF Len(t) > 1 THEN Err("trailing characters")
        ELSE JsonRpcRequest(t[1].v)

\* error_response with the sentinel in place of the request's id.
error_response_sentinel(request_id, e) ==
    McpResponse(JStr("error"),
                None,
                Some(McpError(-32603, "Internal error: " \o e)))

\* error_response that falls back to a null id.
error_response_null(request_id, e) ==
    McpResponse(unwrap_or(request_id, JNull),
                None,
                Some(McpError(-32603, "Internal error: " \o e)))

\* The Err(e) arm of the match on handle_request's result.
error_response(request_id, e) ==
    McpResponse(unwrap_or(request_id, JStr("error")),
                None,
                Some(McpError(-32603, "Internal error: " \o e)))

\* parse_error_response that reports well-formed JSON with a missing field
\* as an invalid request, code -32600.
parse_error_response_invalid(e) ==
    McpResponse(JStr("parse_error"),
                None,
                Some(McpError(IF e \in {"missing field 'jsonrpc'", "missing field 'method'"}
                              THEN -32600 ELSE -32700,
                              "Parse error: " \o e)))

\* The Err(e) arm of the match on from_str's result.
parse_error_response(e) ==
    McpResponse(JStr("parse_error"),
                None,
                Some(McpError(-32700, "Parse error: " \o e)))

\* The match on handle_request's result: the response main writes, if any.
response_for(self, request) ==
    LET request_id == request.id
        result == handle_request(self, request)
    IN  IF result.ok THEN result.val ELSE Some(error_response(request_id, result.err))

(* The input stream *)

Ids == { None, Some(JNull), Some(JNum(1)), Some(JStr("1")) }

Obj1(k1, v1) == JObj(k1 :> v1)

Obj2(k1, v1, k2, v2) == JObj((k1 :> v1) @@ (k2 :> v2))

ToolCall(name, arguments) ==
    Some(Obj2("name", JStr(name), "arguments", JObj(arguments)))

\* <<method, params>> of the requests the stream carries with every id of Ids.
CoreCalls ==
    { << "initialize", Some(Obj2("protocolVersion", JStr("2024-11-05"),
                                 "capabilities", JObj(EmptyMap))) >>,
      << "tools/list", None >>,
      << "tools/call", ToolCall("echo", [message |-> JStr("hi")]) >>,
      << "tools/call", ToolCall("nonexistent", EmptyMap) >>,
      << "resources/list", None >>,
      << "resources/read", Some(Obj1("uri", JStr("file:///example.txt"))) >>,
      << "prompts/list", None >>,
      << "prompts/get", Some(Obj1("name", JStr("hello"))) >>,
      << "initialized", None >> }

\* <<method, params>> of the requests the stream carries with the id 1.
MoreCalls ==
    { << "initialize", None >>,
      << "tools/call", None >>,
      << "tools/call", Some(Obj1("name", JStr("echo"))) >>,
      << "tools/call", ToolCall("echo", EmptyMap) >>,
      << "tools/call", ToolCall("echo", [message |-> JNum(5)]) >>,
      << "tools/call", ToolCall("add", [a |-> JNum(2), b |-> JNum(3)]) >>,
      << "tools/call", ToolCall("add", [b |-> JNum(3)]) >>,
      << "tools/call", ToolCall("add", [a |-> JNum(2), b |-> JStr("3")]) >>,
      << "resources/read", None >>,
      << "resources/read", Some(Obj1("uri", JStr("file:///missing.txt"))) >>,
      << "prompts/get", None >>,
      << "prompts/get", Some(Obj1("name", JStr("bye"))) >>,
      << "Initialize", Some(Obj2("protocolVersion", JStr("2024-11-05"),
                                 "capabilities", JObj(EmptyMap))) >>,
      << "foo/bar", None >> }

Envelope(id, method, params) ==
    JObj([jsonrpc |-> JStr("2.0"), method |-> JStr(method)]
         @@ (IF id = None THEN EmptyMap ELSE [id |-> id[1]])
         @@ (IF params = None THEN EmptyMap ELSE [params |-> params[1]]))

RequestLines ==
    { << Json(Envelope(id, c[1], c[2])), NL >> : id \in Ids, c \in CoreCalls }
    \cup { << Json(Envelope(Some(JNum(1)), c[1], c[2])), NL >> : c \in MoreCalls }

\* Text that is not JSON, JSON that is not a request envelope, and two JSON
\* values on one line.
MalformedLines ==
    { << Junk("not json"), NL >>,
      << Json(Obj1("jsonrpc", JStr("2.0"))), NL >>,
      << Json(Envelope(Some(JNum(1)), "tools/list", None)), Ws(" "),
         Json(Envelope(Some(JNum(1)), "tools/list", None)), NL >> }

BlankLines == { << NL >>, << Ws(" "), NL >> }

PaddedLines == { << Ws(" "), Json(Envelope(Some(JStr("1")), "tools/list", None)), Ws(" "), NL >> }

Lines == RequestLines \cup MalformedLines \cup BlankLines \cup PaddedLines

(* An input stream of requests with a wider range of parameters *)

\* Number of lines that stream delivers, and the largest magnitude of its
\* numbers.
MaxCalls == 1

MaxNum == 2

Member(key, opt) == IF opt = None THEN EmptyMap ELSE key :> opt[1]

MessageArgs == { None, Some(JStr("hi")), Some(JStr("")), Some(JNum(5)), Some(JNull) }

NumberArgs == { None, Some(JStr("3")) } \cup { Some(JNum(n)) : n \in (0 - MaxNum)..MaxNum }

RichCalls ==
    { << "tools/call", ToolCall("echo", Member("message", m)) >> : m \in MessageArgs }
    \cup { << "tools/call", ToolCall("add", Member("a", a) @@ Member("b", b)) >> :
             a \in NumberArgs, b \in NumberArgs }
    \cup { << "tools/call", ToolCall(name, [message |-> JStr("hi"), a |-> JNum(1), b |-> JNum(1)]) >> :
             name \in {"Echo", "multiply", "hello"} }
    \cup { << "tools/call", p >> : p \in { None, Some(JStr("echo")), Some(Obj1("name", JStr("add"))) } }
    \cup { << "resources/read", Some(Obj1("uri", JStr(uri))) >> :
             uri \in { "file:///example.txt", "file:///missing.txt",
                       "file:///example.txt/", "FILE:///EXAMPLE.TXT", "Example File" } }
    \cup { << "resources/read", p >> :
             p \in { None, Some(JObj(EmptyMap)), Some(Obj1("uri", JNum(1))) } }
    \cup { << "prompts/get", Some(Obj1("name", JStr(name))) >> : name \in {"hello", "Hello", "bye", "echo"} }
    \cup { << "prompts/get", p >> :
             p \in { None, Some(JObj(EmptyMap)),
                     Some(Obj2("name", JStr("hello"), "arguments", Obj1("who", JStr("me")))) } }
    \cup { << m, None >> : m \in {"tools/list", "resources/list", "prompts/list"} }

\* Requests whose handlers succeed and fail, with ids that include the two
\* sentinels.
RichIds ==
    { None, Some(JNull), Some(JNum(1)), Some(JStr("error")), Some(JStr("parse_error")) }

IdCalls ==
    { << "tools/list", None >>,
      << "initialize", None >>,
      << "tools/call", ToolCall("nonexistent", EmptyMap) >>,
      << "foo/bar", None >> }

RichLines ==
    { << Json(Envelope(Some(JNum(1)), c[1], c[2])), NL >> : c \in RichCalls }
    \cup { << Json(Envelope(id, c[1], c[2])), NL >> : id \in RichIds, c \in IdCalls }
    \cup { << Junk("not json"), NL >>,
           << Json(Obj1("jsonrpc", JStr("2.0"))), NL >>,
           << Json(Obj2("id", JStr("error"), "method", JStr("tools/list"))), NL >>,
           << Json(Obj2("jsonrpc", JStr("2.0"), "method", JNum(1))), NL >> }

VARIABLES server, pc, line, request, k, stdout, notif, out, consumed, status

vars == << server, pc, line, request, k, stdout, notif, out, consumed, status >>

\* One line written to a stdout handle: the JSON text, "\n", and which input
\* line the loop was processing when it wrote it.
written(via, n, json) == [line |-> n, via |-> via, msg |-> json]

\* flush that returns while a write is still in flight.
flush_nowait(inflight) == TRUE

\* stdout.flush().await returns once the handle has no write in flight.
flush(inflight) == inflight = << >>

Init ==
    /\ server = McpServer_new
    /\ pc = "read"
    /\ line = << >>
    /\ request = None
    /\ k = 0
    /\ stdout = << >>
    /\ notif = << >>
    /\ out = << >>
    /\ consumed = << >>
    /\ status = "running"

\* read_line returns 0: the while loop ends and main returns Ok(()).
ReadEof ==
    /\ pc = "read"
    /\ pc' = "done"
    /\ status' = "Ok"
    /\ UNCHANGED << server, line, request, k, stdout, notif, out, consumed >>

\* stdin.read_line(&mut line) returns more than 0: the stream delivers l,
\* which read_line appends to the buffer.
read_line(l) ==
    /\ pc = "read"
    /\ Len(consumed) < MaxLines
    /\ line' = line \o l
    /\ consumed' = Append(consumed, l)

\* trimmed.is_empty(): continue, without line.clear().
BlankLine(l) ==
    /\ read_line(l)
    /\ is_empty(trim(line'))
    /\ UNCHANGED << server, pc, request, k, stdout, notif, out, status >>

\* ParseError that propagates from_str's error with '?': main returns it and
\* writes no parse error response.
ParseError_fatal(l) ==
    /\ read_line(l)
    /\ ~ is_empty(trim(line'))
    /\ ~ from_str(trim(line')).ok
    /\ pc' = "done"
    /\ status' = "Err"
    /\ UNCHANGED << server, request, k, stdout, notif, out >>

\* from_str fails: the parse error response is written.
ParseError(l) ==
    /\ read_line(l)
    /\ ~ is_empty(trim(line'))
    /\ LET parsed == from_str(trim(line'))
       IN  /\ ~ parsed.ok
           /\ stdout' = Append(stdout, written("main", Len(consumed'),
                                  to_string(parse_error_response(parsed.err))))
    /\ pc' = "flush"
    /\ UNCHANGED << server, request, k, notif, out, status >>

\* Request that propagates a handler's error with '?': main returns it and
\* writes no error response.
Request_fatal(l) ==
    /\ read_line(l)
    /\ ~ is_empty(trim(line'))
    /\ LET parsed == from_str(trim(line'))
       IN  /\ parsed.ok
           /\ parsed.val.method # "initialized"
           /\ LET result == handle_request(server, parsed.val)
              IN  IF result.ok
                  THEN /\ stdout' = IF result.val = None THEN stdout
                                    ELSE Append(stdout, written("main", Len(consumed'),
                                                   to_string(result.val[1])))
                       /\ pc' = "flush"
                       /\ status' = status
                  ELSE /\ stdout' = stdout
                       /\ pc' = "done"
                       /\ status' = "Err"
    /\ UNCHANGED << server, request, k, notif, out >>

\* from_str succeeds and the method is not initialized: handle_request runs
\* and its response, or the error response, is written.
Request(l) ==
    /\ read_line(l)
    /\ ~ is_empty(trim(line'))
    /\ LET parsed == from_str(trim(line'))
       IN  /\ parsed.ok
           /\ parsed.val.method # "initialized"
           /\ LET response == response_for(server, parsed.val)
              IN  /\ stdout' = IF response = None THEN stdout
                                   ELSE Append(stdout, written("main", Len(consumed'),
                                                  to_string(response[1])))
                  /\ pc' = "flush"
    /\ UNCHANGED << server, request, k, notif, out, status >>

\* from_str succeeds and the method is initialized: handle_initialized starts.
Initialized(l) ==
    /\ read_line(l)
    /\ ~ is_empty(trim(line'))
    /\ LET parsed == from_str(trim(line'))
       IN  /\ parsed.ok
           /\ parsed.val.method = "initialized"
           /\ request' = Some(parsed.val)
    /\ pc' = "notify"
    /\ k' = 1
    /\ UNCHANGED << server, stdout, notif, out, status >>

\* send_notification: write_all of the notification and "\n" on a new handle.
SendNotification ==
    /\ pc = "notify"
    /\ notif' = Append(notif, written("notification", Len(consumed),
                          send_notification(handle_initialized[k])))
    /\ pc' = "notify_flush"
    /\ UNCHANGED << server, line, request, k, stdout, out, consumed, status >>

\* send_notification: flush().await returns; handle_initialized goes on to its
\* next send_notification.
FlushNotification ==
    /\ pc = "notify_flush"
    /\ flush(notif)
    /\ k < Len(handle_initialized)
    /\ k' = k + 1
    /\ pc' = "notify"
    /\ UNCHANGED << server, line, request, stdout, notif, out, consumed, status >>

\* InitializedReturn that does not wait for the last notification's flush.
InitializedReturn_noflush ==
    /\ pc = "notify_flush"
    /\ k = Len(handle_initialized)
    /\ request' = None
    /\ k' = 0
    /\ pc' = "flush"
    /\ UNCHANGED << server, line, stdout, notif, out, consumed, status >>

\* The last flush().await returns; handle_initialized returns Ok(None), main
\* writes nothing for it and clears the line.
InitializedReturn ==
    /\ pc = "notify_flush"
    /\ flush(notif)
    /\ k = Len(handle_initialized)
    /\ LET response == response_for(server, request[1])
       IN  stdout' = IF response = None THEN stdout
                     ELSE Append(stdout, written("main", Len(consumed), to_string(response[1])))
    /\ request' = None
    /\ k' = 0
    /\ pc' = "flush"
    /\ UNCHANGED << server, line, notif, out, consumed, status >>

\* The blocking write of a line handed to the main handle reaches the stream.
WriteStdout ==
    /\ stdout # << >>
    /\ out' = Append(out, Head(stdout))
    /\ stdout' = Tail(stdout)
    /\ UNCHANGED << server, pc, line, request, k, notif, consumed, status >>

\* The blocking write of a notification reaches the stream.
WriteNotification ==
    /\ notif # << >>
    /\ out' = Append(out, Head(notif))
    /\ notif' = Tail(notif)
    /\ UNCHANGED << server, pc, line, request, k, stdout, consumed, status >>

\* EndOfIteration without line.clear().
EndOfIteration_noclear ==
    /\ pc = "flush"
    /\ flush(stdout)
    /\ pc' = "read"
    /\ UNCHANGED << server, line, request, k, stdout, notif, out, consumed, status >>

\* stdout.flush().await returns (at once when nothing was written), then
\* line.clear() and the loop reads again.
EndOfIteration ==
    /\ pc = "flush"
    /\ flush(stdout)
    /\ line' = << >>
    /\ pc' = "read"
    /\ UNCHANGED << server, request, k, stdout, notif, out, consumed, status >>

Next ==
    \/ ReadEof
    \/ \E l \in Lines : BlankLine(l)
    \/ \E l \in Lines : ParseError(l)
    \/ \E l \in Lines : Request(l)
    \/ \E l \in Lines : Initialized(l)
    \/ SendNotification
    \/ FlushNotification
    \/ InitializedReturn
    \/ WriteStdout
    \/ WriteNotification
    \/ EndOfIteration

Spec == Init /\ [][Next]_vars

\* The tokio runtime drives main, its only task, for as long as it can take a
\* step: stdin delivers a line or the end of the input, and every write and
\* flush returns.
FairSpec == Spec /\ WF_vars(Next)

\* The loop on the stream of RichLines.
NextRich ==
    \/ ReadEof
    \/ \E l \in RichLines : Len(consumed) < MaxCalls /\ ParseError(l)
    \/ \E l \in RichLines : Len(consumed) < MaxCalls /\ Request(l)
    \/ WriteStdout
    \/ EndOfIteration

RichSpec == Init /\ [][NextRich]_vars

(* Properties *)

\* The non-whitespace text of an input line.
Payload(l) == SelectSeq(l, LAMBDA tok : tok.k # "ws")

\* The line is empty after trimming whitespace.
IsBlank(l) == \A j \in 1..Len(l) : l[j].k = "ws"

\* The line is one JSON object with string members jsonrpc and method.
IsEnvelope(l) ==
    /\ Len(Payload(l)) = 1
    /\ Payload(l)[1].k = "json"
    /\ Payload(l)[1].v.t = "object"
    /\ "jsonrpc" \in DOMAIN Payload(l)[1].v.o
    /\ Payload(l)[1].v.o["jsonrpc"].t = "string"
    /\ "method" \in DOMAIN Payload(l)[1].v.o
    /\ Payload(l)[1].v.o["method"].t = "string"

\* The members of the envelope on line l, as they stand in its JSON text.
MembersOf(l) == Payload(l)[1].v.o

MethodOf(l) == MembersOf(l)["method"].s

HasId(l) == "id" \in DOMAIN MembersOf(l)

IdOf(l) == MembersOf(l)["id"]

HasParams(l) == "params" \in DOMAIN MembersOf(l) /\ MembersOf(l)["params"].t # "null"

ParamsOf(l) == MembersOf(l)["params"]

\* Input line i has been processed to the end of its loop iteration.
Completed(i) == i < Len(consumed) \/ pc \in {"read", "done"}

CompletedLines == { i \in 1..Len(consumed) : Completed(i) }

\* What the stream holds for input line i, in the order written.
OutOf(i) == SelectSeq(out, LAMBDA w : w.line = i)

\* The lines of the stream that are response envelopes for input line i.
ResponsesOf(i) == SelectSeq(out, LAMBDA w : w.line = i /\ w.via = "main")

HasResult(w) == "result" \in DOMAIN w.msg.o

HasError(w) == "error" \in DOMAIN w.msg.o

ErrorCode(w) == w.msg.o["error"].o["code"]

ErrorMessage(w) == w.msg.o["error"].o["message"]

Vocabulary ==
    { "initialize", "tools/list", "tools/call", "resources/list", "resources/read",
      "prompts/list", "prompts/get", "initialized" }

Msgs(ws) == [j \in 1..Len(ws) |-> ws[j].msg]

\* What the server writes for a stream that consists of the line l alone.
LineOutput(l) ==
    IF is_empty(trim(l)) THEN << >>
    ELSE LET parsed == from_str(trim(l))
         IN  IF ~ parsed.ok
             THEN << to_string(parse_error_response(parsed.err)) >>
             ELSE IF parsed.val.method = "initialized"
             THEN [j \in 1..Len(handle_initialized) |->
                     send_notification(handle_initialized[j])]
             ELSE LET response == response_for(server, parsed.val)
                  IN  IF response = None THEN << >> ELSE << to_string(response[1]) >>

RECURSIVE StreamOutput(_)
StreamOutput(ls) ==
    IF ls = << >> THEN << >> ELSE LineOutput(Head(ls)) \o StreamOutput(Tail(ls))

\* C1 as stated: every completed line that is a request envelope with an id
\* member has a response envelope on the stream whose id equals that member.
C1_EveryIdEchoed ==
    \A i \in CompletedLines :
        (IsEnvelope(consumed[i]) /\ HasId(consumed[i]))
        => \E j \in 1..Len(out) :
               /\ out[j].line = i
               /\ out[j].via = "main"
               /\ out[j].msg.o["id"] = IdOf(consumed[i])

\* C1 as amended: every completed line that is a request envelope with a
\* non-null id and a method other than initialized has exactly one response
\* envelope on the stream, and its id equals the request's id in type and
\* value, whether the handler succeeded or failed.
C1_IdEchoed ==
    \A i \in CompletedLines :
        (/\ IsEnvelope(consumed[i])
         /\ HasId(consumed[i])
         /\ IdOf(consumed[i]).t # "null"
         /\ MethodOf(consumed[i]) # "initialized")
        => LET ws == ResponsesOf(i)
           IN  /\ Len(ws) = 1
               /\ ws[1].msg.o["id"] = IdOf(consumed[i])

\* A request with the string id "1" whose handler failed and a request with
\* the number id 1 whose handler succeeded have both been answered.
C1_Witness ==
    /\ Len(consumed) = 2
    /\ pc = "read"
    /\ IsEnvelope(consumed[1]) /\ HasId(consumed[1]) /\ IdOf(consumed[1]) = JStr("1")
    /\ Len(ResponsesOf(1)) = 1 /\ HasError(ResponsesOf(1)[1])
    /\ IsEnvelope(consumed[2]) /\ HasId(consumed[2]) /\ IdOf(consumed[2]) = JNum(1)
    /\ Len(ResponsesOf(2)) = 1 /\ HasResult(ResponsesOf(2)[1])

\* C2 as stated: a completed line that is a request envelope without an id
\* member has no response envelope on the stream, whatever its method.
C2_NoIdNoResponse ==
    \A i \in CompletedLines :
        (/\ IsEnvelope(consumed[i])
         /\ ~ HasId(consumed[i])
         /\ MethodOf(consumed[i]) \in Vocabulary)
        => ResponsesOf(i) = << >>

\* C3: a completed line whose method is initialized, with or without an id,
\* has exactly three lines on the stream: the notifications tools/listChanged,
\* resources/listChanged, prompts/listChanged in that order, each with members
\* jsonrpc, method and params only, params being {}; none is a response.
C3_InitializedNotifications ==
    \A i \in CompletedLines :
        (IsEnvelope(consumed[i]) /\ MethodOf(consumed[i]) = "initialized")
        => LET ws == OutOf(i)
           IN  /\ Len(ws) = 3
               /\ ResponsesOf(i) = << >>
               /\ \A j \in 1..3 :
                      /\ DOMAIN ws[j].msg.o = {"jsonrpc", "method", "params"}
                      /\ ws[j].msg.o["jsonrpc"] = JStr("2.0")
                      /\ ws[j].msg.o["params"] = JObj(EmptyMap)
               /\ ws[1].msg.o["method"] = JStr("tools/listChanged")
               /\ ws[2].msg.o["method"] = JStr("resources/listChanged")
               /\ ws[3].msg.o["method"] = JStr("prompts/listChanged")

\* An initialized request with an id and one without have both been processed.
C3_Witness ==
    /\ Len(consumed) = 2
    /\ pc = "read"
    /\ IsEnvelope(consumed[1]) /\ MethodOf(consumed[1]) = "initialized" /\ HasId(consumed[1])
    /\ IsEnvelope(consumed[2]) /\ MethodOf(consumed[2]) = "initialized" /\ ~ HasId(consumed[2])
    /\ Len(out) = 6

\* C4: a completed non-blank line that is not a request envelope has exactly
\* one line on the stream, a response with id "parse_error", error code -32700
\* and no result; and when the next line is a request envelope, the stream
\* holds for it exactly what it holds for that line alone.
C4_ParseErrorRecovered ==
    \A i \in CompletedLines :
        (~ IsBlank(consumed[i]) /\ ~ IsEnvelope(consumed[i]))
        => LET ws == OutOf(i)
           IN  /\ Len(ws) = 1
               /\ ws[1].via = "main"
               /\ DOMAIN ws[1].msg.o = {"jsonrpc", "id", "error"}
               /\ ws[1].msg.o["id"] = JStr("parse_error")
               /\ ErrorCode(ws[1]) = JNum(-32700)
               /\ (i + 1 \in CompletedLines /\ IsEnvelope(consumed[i + 1]))
                  => Msgs(OutOf(i + 1)) = LineOutput(consumed[i + 1])

\* A line that is not JSON has been answered and the request after it has
\* received its result.
C4_Witness ==
    /\ Len(consumed) = 2
    /\ pc = "read"
    /\ ~ IsBlank(consumed[1])
    /\ Payload(consumed[1])[1].k = "junk"
    /\ Len(OutOf(1)) = 1
    /\ IsEnvelope(consumed[2])
    /\ Len(OutOf(2)) = 1 /\ HasResult(OutOf(2)[1])

\* C5: every response envelope written, on the stream or still in flight on
\* the main handle, has exactly one of result and error.
C5_ResultXorError ==
    /\ \A j \in 1..Len(out) :
           out[j].via = "main" => (HasResult(out[j]) # HasError(out[j]))
    /\ \A j \in 1..Len(stdout) : HasResult(stdout[j]) # HasError(stdout[j])

\* The stream holds a response with a result and a response with an error.
C5_Witness ==
    /\ Len(out) = 2
    /\ out[1].via = "main" /\ HasResult(out[1]) /\ ~ HasError(out[1])
    /\ out[2].via = "main" /\ HasError(out[2]) /\ ~ HasResult(out[2])

\* C6: a completed request whose method is not one of the eight names, a case
\* variant included, has exactly one line on the stream: an error response
\* with code -32603, no result, and the message "Internal error: Unknown
\* method: " followed by the method; and no request whose method is one of
\* the eight names is answered with that message.
C6_UnknownMethod ==
    \A i \in CompletedLines :
        IsEnvelope(consumed[i])
        => LET ws == OutOf(i)
               unknown == JStr("Internal error: Unknown method: " \o MethodOf(consumed[i]))
           IN  IF MethodOf(consumed[i]) \notin Vocabulary
               THEN /\ Len(ws) = 1
                    /\ ws[1].via = "main"
                    /\ HasError(ws[1]) /\ ~ HasResult(ws[1])
                    /\ ErrorCode(ws[1]) = JNum(-32603)
                    /\ ErrorMessage(ws[1]) = unknown
               ELSE \A j \in 1..Len(ws) :
                        HasError(ws[j]) => ErrorMessage(ws[j]) # unknown

\* The case variant Initialize, with parameters initialize accepts, has been
\* answered.
C6_Witness ==
    /\ Len(consumed) = 1
    /\ pc = "read"
    /\ IsEnvelope(consumed[1])
    /\ MethodOf(consumed[1]) = "Initialize"
    /\ HasParams(consumed[1])
    /\ Len(OutOf(1)) = 1

\* The conditions under which C7 says a tools/call request fails.
ToolCallFails(l) ==
    \/ ~ HasParams(l)
    \/ ParamsOf(l).t # "object"
    \/ "name" \notin DOMAIN ParamsOf(l).o
    \/ ParamsOf(l).o["name"].t # "string"
    \/ "arguments" \notin DOMAIN ParamsOf(l).o
    \/ ParamsOf(l).o["arguments"].t # "object"
    \/ LET name == ParamsOf(l).o["name"].s
           arguments == ParamsOf(l).o["arguments"].o
           Lacks(key, type) == key \notin DOMAIN arguments \/ arguments[key].t # type
       IN  \/ name \notin {"echo", "add"}
           \/ name = "echo" /\ Lacks("message", "string")
           \/ name = "add" /\ (Lacks("a", "number") \/ Lacks("b", "number"))

\* C7: a completed tools/call request has exactly one line on the stream;
\* when the request fails that line is an error response with code -32603
\* and no result; when it has a result, isError is false; and no line of the
\* stream has a result whose isError is anything but false.
C7_ToolCallFailures ==
    /\ \A i \in CompletedLines :
           (IsEnvelope(consumed[i]) /\ MethodOf(consumed[i]) = "tools/call")
           => LET ws == OutOf(i)
              IN  /\ Len(ws) = 1
                  /\ ws[1].via = "main"
                  /\ ToolCallFails(consumed[i])
                     => /\ HasError(ws[1])
                        /\ ~ HasResult(ws[1])
                        /\ ErrorCode(ws[1]) = JNum(-32603)
                  /\ HasResult(ws[1])
                     => ws[1].msg.o["result"].o["isError"] = JBool(FALSE)
    /\ \A j \in 1..Len(out) :
           (HasResult(out[j]) /\ "isError" \in DOMAIN out[j].msg.o["result"].o)
           => out[j].msg.o["result"].o["isError"] = JBool(FALSE)

\* A tools/call to add that lacks a number argument has been answered with an error
\* and a tools/call that succeeds with a result.
C7_Witness ==
    /\ Len(consumed) = 2
    /\ pc = "read"
    /\ IsEnvelope(consumed[1]) /\ MethodOf(consumed[1]) = "tools/call"
    /\ ToolCallFails(consumed[1])
    /\ HasParams(consumed[1])
    /\ ParamsOf(consumed[1]).o["name"] = JStr("add")
    /\ HasError(OutOf(1)[1])
    /\ IsEnvelope(consumed[2]) /\ MethodOf(consumed[2]) = "tools/call"
    /\ ~ ToolCallFails(consumed[2])
    /\ HasResult(OutOf(2)[1])

\* C8: the stream lists its lines in the order of the input lines that caused
\* them; a write in flight belongs to the line being processed; when the loop
\* reads, nothing is in flight; and for every completed line the stream holds
\* exactly what that line alone produces, in the order written.
C8_InputOrder ==
    /\ \A j1, j2 \in 1..Len(out) : j1 < j2 => out[j1].line <= out[j2].line
    /\ \A j \in 1..Len(stdout) : stdout[j].line = Len(consumed)
    /\ \A j \in 1..Len(notif) : notif[j].line = Len(consumed)
    /\ pc = "read" => (stdout = << >> /\ notif = << >>)
    /\ \A i \in CompletedLines : Msgs(OutOf(i)) = LineOutput(consumed[i])

\* The three notifications of an initialized line are on the stream, followed
\* by the response to the next line.
C8_Witness ==
    /\ Len(consumed) = 2
    /\ pc = "read"
    /\ IsEnvelope(consumed[1]) /\ MethodOf(consumed[1]) = "initialized"
    /\ Len(out) = 4
    /\ \A j \in 1..3 : out[j].line = 1 /\ out[j].via = "notification"
    /\ out[4].line = 2 /\ out[4].via = "main"

\* C9: once the zero-length read has ended the loop, the exit status is
\* success, no write is in flight, the stream does not change any more, and
\* the status is success only after that read.
C9_EofTerminates ==
    /\ [](pc = "done" => (status = "Ok" /\ stdout = << >> /\ notif = << >>))
    /\ [](status = "Ok" => pc = "done")
    /\ [][pc = "done" => (out' = out /\ pc' = "done")]_vars

\* The loop has ended after a parse error response and a handler error
\* response.
C9_Witness ==
    /\ pc = "done"
    /\ Len(out) = 2
    /\ HasError(out[1]) /\ ErrorCode(out[1]) = JNum(-32700)
    /\ HasError(out[2]) /\ ErrorCode(out[2]) = JNum(-32603)

\* C10: a completed blank line has nothing on the stream, and when the loop
\* is at its head the stream holds exactly what the input with its blank
\* lines removed produces.
C10_BlankLinesNoEffect ==
    /\ \A i \in CompletedLines : IsBlank(consumed[i]) => OutOf(i) = << >>
    /\ pc \in {"read", "done"}
       => Msgs(out) = StreamOutput(SelectSeq(consumed, LAMBDA l : ~ IsBlank(l)))

\* A request read after a blank line, onto a buffer that still held the
\* blank line, has been answered.
C10_Witness ==
    /\ Len(consumed) = 2
    /\ pc = "read"
    /\ IsBlank(consumed[1])
    /\ IsEnvelope(consumed[2])
    /\ Len(out) = 1 /\ out[1].line = 2 /\ HasResult(out[1])

\* The names of the tools array of a tools/list response, in order.
ToolNames(w) ==
    LET tools == w.msg.o["result"].o["tools"].o
    IN  [j \in DOMAIN tools |-> tools[j].o["name"].s]

\* C11: the server's tables are those built at construction; a completed
\* tools/list request has one response, whose tools are echo then add,
\* whatever lines were processed before it; and two completed lines with the
\* same text have the same output, whatever preceded each.
C11_NoServerState ==
    /\ server = McpServer_new
    /\ \A i \in CompletedLines :
           (IsEnvelope(consumed[i]) /\ MethodOf(consumed[i]) = "tools/list")
           => LET ws == OutOf(i)
              IN  /\ Len(ws) = 1
                  /\ HasResult(ws[1])
                  /\ DOMAIN ws[1].msg.o["result"].o = {"tools"}
                  /\ ToolNames(ws[1]) = << "echo", "add" >>
    /\ \A i, j \in CompletedLines :
           consumed[i] = consumed[j] => Msgs(OutOf(i)) = Msgs(OutOf(j))

\* A tools/list request has been answered after a request whose handler
\* failed.
C11_Witness ==
    /\ Len(consumed) = 2
    /\ pc = "read"
    /\ IsEnvelope(consumed[1])
    /\ Len(OutOf(1)) = 1 /\ HasError(OutOf(1)[1])
    /\ IsEnvelope(consumed[2]) /\ MethodOf(consumed[2]) = "tools/list"
    /\ Len(OutOf(2)) = 1 /\ HasResult(OutOf(2)[1])

\* The line is a tools/call request for the tool name, with an arguments
\* object.
CallsTool(l, name) ==
    /\ IsEnvelope(l)
    /\ MethodOf(l) = "tools/call"
    /\ HasParams(l)
    /\ ParamsOf(l).t = "object"
    /\ "name" \in DOMAIN ParamsOf(l).o
    /\ ParamsOf(l).o["name"] = JStr(name)
    /\ "arguments" \in DOMAIN ParamsOf(l).o
    /\ ParamsOf(l).o["arguments"].t = "object"

ArgumentsOf(l) == ParamsOf(l).o["arguments"].o

\* The response is an error response with code -32603 and the message
\* "Internal error: " followed by text.
IsInternalError(w, text) ==
    /\ w.via = "main"
    /\ HasError(w) /\ ~ HasResult(w)
    /\ ErrorCode(w) = JNum(-32603)
    /\ ErrorMessage(w) = JStr("Internal error: " \o text)

\* The response has a result whose content is the single text item text.
IsTextResult(w, text) ==
    /\ w.via = "main"
    /\ HasResult(w) /\ ~ HasError(w)
    /\ w.msg.o["result"].o["content"] =
           JArr(<< JObj([type |-> JStr("text"), text |-> JStr(text)]) >>)

\* C12: a completed tools/call of echo has one response; when
\* arguments.message is a string m its result is the single text item
\* "Echo: " followed by m, otherwise it is the error "Missing 'message'
\* argument" with no result.
C12_Echo ==
    \A i \in CompletedLines :
        CallsTool(consumed[i], "echo")
        => LET ws == OutOf(i)
               arguments == ArgumentsOf(consumed[i])
           IN  /\ Len(ws) = 1
               /\ IF "message" \in DOMAIN arguments /\ arguments["message"].t = "string"
                  THEN IsTextResult(ws[1], "Echo: " \o arguments["message"].s)
                  ELSE IsInternalError(ws[1], "Missing 'message' argument")

\* An echo of "hi" has been answered with its result.
C12_Witness ==
    /\ Len(consumed) = 1
    /\ pc = "read"
    /\ CallsTool(consumed[1], "echo")
    /\ "message" \in DOMAIN ArgumentsOf(consumed[1])
    /\ ArgumentsOf(consumed[1])["message"] = JStr("hi")
    /\ Len(out) = 1
    /\ HasResult(out[1])

\* Decimal text of an integer, without a fractional part.
IntText(n) == IF n < 0 THEN "-" \o ToString(0 - n) ELSE ToString(n)

IsNumberArg(arguments, key) == key \in DOMAIN arguments /\ arguments[key].t = "number"

\* C13: a completed tools/call of add has one response; when a and b are
\* numbers its result is the single text item "<a> + <b> = <a+b>" in integer
\* notation; otherwise it is the error "Missing 'a' argument" when a is absent
\* or not a number, and else "Missing 'b' argument".
C13_Add ==
    \A i \in CompletedLines :
        CallsTool(consumed[i], "add")
        => LET ws == OutOf(i)
               arguments == ArgumentsOf(consumed[i])
           IN  /\ Len(ws) = 1
               /\ IF ~ IsNumberArg(arguments, "a")
                  THEN IsInternalError(ws[1], "Missing 'a' argument")
                  ELSE IF ~ IsNumberArg(arguments, "b")
                  THEN IsInternalError(ws[1], "Missing 'b' argument")
                  ELSE IsTextResult(ws[1],
                           IntText(arguments["a"].n) \o " + " \o IntText(arguments["b"].n)
                           \o " = " \o IntText(arguments["a"].n + arguments["b"].n))

\* An add of a negative and a positive number has been answered with its
\* result.
C13_Witness ==
    /\ Len(consumed) = 1
    /\ pc = "read"
    /\ CallsTool(consumed[1], "add")
    /\ IsNumberArg(ArgumentsOf(consumed[1]), "a") /\ ArgumentsOf(consumed[1])["a"].n < 0
    /\ IsNumberArg(ArgumentsOf(consumed[1]), "b") /\ ArgumentsOf(consumed[1])["b"].n > 0
    /\ Len(out) = 1
    /\ HasResult(out[1])

\* The line is a request with an object as params, whose member key is the
\* string str.
HasStringParam(l, key, str) ==
    /\ HasParams(l)
    /\ ParamsOf(l).t = "object"
    /\ key \in DOMAIN ParamsOf(l).o
    /\ ParamsOf(l).o[key] = JStr(str)

\* C14: a completed resources/read request has one response; when params.uri
\* is the string file:///example.txt its result is one contents item with
\* that uri, mimeType text/plain and the fixed two-line text; for any other
\* uri, absent params, or params without a string uri, it is an error
\* response with code -32603 and no result.
C14_ResourceRead ==
    \A i \in CompletedLines :
        (IsEnvelope(consumed[i]) /\ MethodOf(consumed[i]) = "resources/read")
        => LET ws == OutOf(i)
           IN  /\ Len(ws) = 1
               /\ ws[1].via = "main"
               /\ IF HasStringParam(consumed[i], "uri", "file:///example.txt")
                  THEN /\ ~ HasError(ws[1])
                       /\ HasResult(ws[1])
                       /\ ws[1].msg.o["result"] =
                              JObj([contents |-> JArr(<< JObj(
                                  [uri |-> JStr("file:///example.txt"),
                                   mimeType |-> JStr("text/plain"),
                                   text |-> JStr("This is an example text file content.\nIt contains some sample text for demonstration purposes.")]) >>)])
                  ELSE /\ HasError(ws[1])
                       /\ ~ HasResult(ws[1])
                       /\ ErrorCode(ws[1]) = JNum(-32603)

\* The example resource has been read.
C14_Witness ==
    /\ Len(consumed) = 1
    /\ pc = "read"
    /\ IsEnvelope(consumed[1]) /\ MethodOf(consumed[1]) = "resources/read"
    /\ HasStringParam(consumed[1], "uri", "file:///example.txt")
    /\ Len(out) = 1
    /\ HasResult(out[1])

\* The conditions under which a request's handler fails: unknown method,
\* missing or undeserializable params, unknown tool, resource or prompt,
\* missing or mistyped argument.
HandlerFails(l) ==
    LET method == MethodOf(l)
        members == IF HasParams(l) /\ ParamsOf(l).t = "object" THEN ParamsOf(l).o ELSE EmptyMap
        LacksMember(key, type) == key \notin DOMAIN members \/ members[key].t # type
    IN  \/ method \notin Vocabulary
        \/ /\ method = "initialize"
           /\ \/ HasParams(l) /\ ParamsOf(l).t # "object"
              \/ LacksMember("protocolVersion", "string")
              \/ LacksMember("capabilities", "object")
        \/ method = "tools/call" /\ ToolCallFails(l)
        \/ /\ method = "resources/read"
           /\ ~ HasStringParam(l, "uri", "file:///example.txt")
        \/ /\ method = "prompts/get"
           /\ ~ HasStringParam(l, "name", "hello")

\* C15: a completed request whose handler fails has exactly one line on the
\* stream, an error response with code -32603 and no result; the loop has
\* not ended with an error; and the line read after it has on the stream
\* exactly what that line alone produces.
C15_FailureReportedOnce ==
    /\ status # "Err"
    /\ \A i \in CompletedLines :
           (IsEnvelope(consumed[i]) /\ HandlerFails(consumed[i]))
           => LET ws == OutOf(i)
              IN  /\ Len(ws) = 1
                  /\ ws[1].via = "main"
                  /\ HasError(ws[1]) /\ ~ HasResult(ws[1])
                  /\ ErrorCode(ws[1]) = JNum(-32603)
                  /\ i + 1 \in CompletedLines
                     => Msgs(OutOf(i + 1)) = LineOutput(consumed[i + 1])

\* A prompts/get of an unknown prompt has been answered with an error and
\* the request after it with a result.
C15_Witness ==
    /\ Len(consumed) = 2
    /\ pc = "read"
    /\ IsEnvelope(consumed[1]) /\ MethodOf(consumed[1]) = "prompts/get"
    /\ HandlerFails(consumed[1]) /\ HasParams(consumed[1])
    /\ Len(OutOf(1)) = 1 /\ HasError(OutOf(1)[1])
    /\ IsEnvelope(consumed[2]) /\ ~ HandlerFails(consumed[2])
    /\ Len(OutOf(2)) = 1 /\ HasResult(OutOf(2)[1])

\* Some line of ws is an error response with the code.
HasErrorCode(ws, code) ==
    \E j \in 1..Len(ws) : HasError(ws[j]) /\ ErrorCode(ws[j]) = JNum(code)

\* C16: every error response on the stream has code -32700 or -32603; a
\* completed non-blank line has a -32700 response exactly when it is not a
\* request envelope, and a -32603 response exactly when it is a request
\* envelope whose handler fails.
C16_ErrorCodes ==
    /\ \A j \in 1..Len(out) :
           HasError(out[j]) => ErrorCode(out[j]) \in {JNum(-32700), JNum(-32603)}
    /\ \A i \in CompletedLines :
           ~ IsBlank(consumed[i])
           => LET ws == OutOf(i)
              IN  /\ HasErrorCode(ws, -32700) <=> ~ IsEnvelope(consumed[i])
                  /\ HasErrorCode(ws, -32603)
                     <=> (IsEnvelope(consumed[i]) /\ HandlerFails(consumed[i]))

\* Well-formed JSON without a method member has been answered with -32700.
C16_Witness ==
    /\ Len(consumed) = 1
    /\ pc = "read"
    /\ Len(Payload(consumed[1])) = 1
    /\ Payload(consumed[1])[1].k = "json"
    /\ "method" \notin DOMAIN Payload(consumed[1])[1].v.o
    /\ Len(out) = 1
    /\ HasErrorCode(out, -32700)

\* The request on line l has no id member, or a null one.
NoId(l) == ~ HasId(l) \/ IdOf(l).t = "null"

\* C17: a completed request without id, or with a null id, whose handler fails
\* has one response, with the id "error"; a response has the id "parse_error"
\* only when its line is not a request envelope or is a request with that id;
\* and a response has the id "error" only when its line is a request whose
\* handler failed and which has no id or a null id, or a request with that id.
C17_Sentinels ==
    \A i \in CompletedLines :
        LET l == consumed[i]
            ws == ResponsesOf(i)
        IN  /\ (IsEnvelope(l) /\ NoId(l) /\ HandlerFails(l))
               => /\ Len(ws) = 1
                  /\ ws[1].msg.o["id"] = JStr("error")
            /\ \A j \in 1..Len(ws) :
                   /\ ws[j].msg.o["id"] = JStr("parse_error")
                      => \/ ~ IsEnvelope(l)
                         \/ ~ NoId(l) /\ IdOf(l) = JStr("parse_error")
                   /\ ws[j].msg.o["id"] = JStr("error")
                      => /\ IsEnvelope(l)
                         /\ \/ NoId(l) /\ HandlerFails(l)
                            \/ ~ NoId(l) /\ IdOf(l) = JStr("error")

\* A request with a null id whose handler failed has been answered with the
\* id "error".
C17_Witness ==
    /\ Len(consumed) = 1
    /\ pc = "read"
    /\ IsEnvelope(consumed[1])
    /\ HasId(consumed[1]) /\ IdOf(consumed[1]) = JNull
    /\ HandlerFails(consumed[1])
    /\ Len(out) = 1
    /\ out[1].msg.o["id"] = JStr("error")

\* The values of the member key of the items that the listing method returns
\* under member, for the server of the current state.
Listed(method, member, key) ==
    LET listing == [jsonrpc |-> "2.0", id |-> Some(JNum(0)), method |-> method, params |-> None]
        items == handle_request(server, listing).val[1].result[1].o[member].o
    IN  { items[j].o[key].s : j \in DOMAIN items }

\* The values of the member key of the items under member in the result of
\* the response w.
ListedIn(w, member, key) ==
    LET items == w.msg.o["result"].o[member].o
    IN  { items[j].o[key].s : j \in DOMAIN items }

\* The params of the request on line l are an object whose member key is a
\* string.
HasStringMember(l, key) ==
    /\ HasParams(l)
    /\ ParamsOf(l).t = "object"
    /\ key \in DOMAIN ParamsOf(l).o
    /\ ParamsOf(l).o[key].t = "string"

\* C18: a completed listing request is answered with the listed names or
\* uris; a completed tools/call whose params name a tool and carry an
\* arguments object is answered with the error "Unknown tool" exactly when
\* the name is not listed by tools/list; a completed resources/read with a
\* string uri has a result when the uri is listed by resources/list and an
\* error otherwise; a completed prompts/get with a string name has a result
\* when the name is listed by prompts/list and an error otherwise.
C18_ListingAgreesWithInvocation ==
    \A i \in CompletedLines :
        IsEnvelope(consumed[i])
        => LET l == consumed[i]
               method == MethodOf(l)
               ws == OutOf(i)
           IN  /\ method = "tools/list"
                  => Len(ws) = 1 /\ HasResult(ws[1])
                     /\ ListedIn(ws[1], "tools", "name") = Listed("tools/list", "tools", "name")
               /\ method = "resources/list"
                  => Len(ws) = 1 /\ HasResult(ws[1])
                     /\ ListedIn(ws[1], "resources", "uri") = Listed("resources/list", "resources", "uri")
               /\ method = "prompts/list"
                  => Len(ws) = 1 /\ HasResult(ws[1])
                     /\ ListedIn(ws[1], "prompts", "name") = Listed("prompts/list", "prompts", "name")
               /\ (method = "tools/call" /\ HasStringMember(l, "name")
                   /\ "arguments" \in DOMAIN ParamsOf(l).o
                   /\ ParamsOf(l).o["arguments"].t = "object")
                  => LET name == ParamsOf(l).o["name"].s
                     IN  /\ Len(ws) = 1
                         /\ IsInternalError(ws[1], "Unknown tool: " \o name)
                            <=> name \notin Listed("tools/list", "tools", "name")
                         /\ name \notin Listed("tools/list", "tools", "name")
                            => HasError(ws[1]) /\ ~ HasResult(ws[1])
               /\ (method = "resources/read" /\ HasStringMember(l, "uri"))
                  => LET uri == ParamsOf(l).o["uri"].s
                     IN  /\ Len(ws) = 1
                         /\ IF uri \in Listed("resources/list", "resources", "uri")
                            THEN HasResult(ws[1]) /\ ~ HasError(ws[1])
                            ELSE HasError(ws[1]) /\ ~ HasResult(ws[1])
               /\ (method = "prompts/get" /\ HasStringMember(l, "name"))
                  => LET name == ParamsOf(l).o["name"].s
                     IN  /\ Len(ws) = 1
                         /\ IF name \in Listed("prompts/list", "prompts", "name")
                            THEN HasResult(ws[1]) /\ ~ HasError(ws[1])
                            ELSE HasError(ws[1]) /\ ~ HasResult(ws[1])

\* A tools/call naming multiply, which tools/list does not list, has been
\* rejected as an unknown tool.
C18_Witness ==
    /\ Len(consumed) = 1
    /\ pc = "read"
    /\ CallsTool(consumed[1], "multiply")
    /\ "multiply" \notin Listed("tools/list", "tools", "name")
    /\ "add" \in Listed("tools/list", "tools", "name")
    /\ Len(out) = 1
    /\ IsInternalError(out[1], "Unknown tool: multiply")

\* The number of lines the stream is to hold for input line l: none for a
\* blank line, three for a request whose method is initialized, one for
\* every other line.
Expected(l) ==
    IF IsBlank(l) THEN 0
    ELSE IF IsEnvelope(l) /\ MethodOf(l) = "initialized" THEN 3
    ELSE 1

\* C19: the loop eventually ends; and once it has ended, with success, no
\* write is in flight and every line read has its output on the stream: one
\* line for a line that failed to parse, whose handler failed, or that got a
\* response, three lines for initialized, none for a blank line, and the
\* stream holds nothing else.
C19_TerminatesAllAnswered ==
    /\ <>(pc = "done")
    /\ [](pc = "done"
          => /\ status = "Ok"
             /\ stdout = << >> /\ notif = << >>
             /\ \A i \in 1..Len(consumed) : Len(OutOf(i)) = Expected(consumed[i])
             /\ \A j \in 1..Len(out) : out[j].line \in 1..Len(consumed)
             /\ \A i \in 1..Len(consumed) :
                    Expected(consumed[i]) = 1
                    => /\ OutOf(i)[1].via = "main"
                       /\ HasError(OutOf(i)[1])
                          <=> (~ IsEnvelope(consumed[i]) \/ HandlerFails(consumed[i])))

\* The loop has ended after an initialized request, with its three
\* notifications on the stream, and a request that got a result.
C19_Witness ==
    /\ pc = "done"
    /\ Len(consumed) = 2
    /\ IsEnvelope(consumed[1]) /\ MethodOf(consumed[1]) = "initialized"
    /\ Len(OutOf(1)) = 3
    /\ IsEnvelope(consumed[2])
    /\ Len(OutOf(2)) = 1 /\ HasResult(OutOf(2)[1])
    /\ Len(out) = 4

====
